---- MODULE Spec2Model ----
(***************************************************************************)
(* The language-server bridge driver of                                    *)
(* spyder/utils/code_analysis/ls_client/main.py: the SignalManager         *)
(* (lines 70-91) and the __main__ flow (lines 94-113), as one sequential   *)
(* process whose position is pc, interleaved with asynchronous signal      *)
(* delivery and with the front end's traffic.                              *)
(*                                                                         *)
(* pc values "Lnn" are the line of main.py about to execute.  "start",     *)
(* "listen", "listen_fwd", "listen_ret" and "stop" are positions inside    *)
(* the calls client.start(), client.listen() and client.stop().  The       *)
(* class LanguageServerClient (module producer) is not among the sources;  *)
(* what those calls do inside is taken from the specification (sections    *)
(* 4.3, 4.4, 4.6 and 7).  How the driver reacts to their outcomes is taken *)
(* from main.py.                                                           *)
(***************************************************************************)
EXTENDS Naturals, Sequences, FiniteSets

\* Bounds of the model.
MaxSignals == 2
MaxFrames == 2
MaxUnsolicited == 1

VARIABLES
    pc,          \* position of the main flow
    WINDOWS,     \* main.py:15, fixed at start
    external,    \* args.external_server (main.py:37-39), fixed at start
    handler,     \* the interpreter's signal table: signal -> handler
    original,    \* SignalManager.original_sigint/_sigterm/_sigbreak
    exitStatus,  \* how the process ended: "none" while it runs
    exc,         \* the exception that ended the process, if any
    log,         \* calls made by the main flow, in order (listen: first only)
    sigLog,      \* signals delivered so far: which, where, which handler ran
    child,       \* the owned language server process
    connected,   \* both transport endpoints are open
    feAlive,     \* the front end peer is connected
    feSent,      \* number of frames the front end has sent
    feQueue,     \* frames sent by the front end, not yet read by the bridge
    held,        \* the frame an iteration has read and not yet forwarded
    toServer,    \* frames delivered to the server, in order
    disconnectSeen, \* a listen() call observed the peer's disconnect
    srvSent,     \* envelopes the server has emitted, in order
    srvRead,     \* how many of them the bridge has read
    heldSrv,     \* the server envelope an iteration has read, not yet forwarded
    toFrontEnd,  \* envelopes delivered to the front end, in order
    pending,     \* Pending Request Table: identifiers awaiting a response
    startup,     \* the signal table as the interpreter started with it
    edText,      \* editor: the text of the line under the cursor
    edUndo,      \* editor: the undo stack, latest command first
    edRedo,      \* editor: the redo stack, next command first
    edVersions   \* editor: the line after 0, 1, 2, ... of the edits in force

\* The editor's state (test_shortcuts.py), which the bridge never touches.
edVars == <<edText, edUndo, edRedo, edVersions>>

\* What no step of the bridge changes besides WINDOWS and external.
otherVars == <<startup, edVars>>

\* The server-to-front-end half of the relay.
srvVars == <<srvSent, srvRead, heldSrv, toFrontEnd, pending>>

vars == <<pc, WINDOWS, external, otherVars, handler, original, exitStatus, exc,
          log, sigLog, child, connected, feAlive, feSent, feQueue, held,
          toServer, disconnectSeen, srvVars>>

clientVars == <<child, connected, feAlive, feSent, feQueue, held, toServer,
                disconnectSeen, srvVars>>

----------------------------------------------------------------------------
\* Envelope identifiers: the front end's requests carry 1, 2, ...

\* The identifier slot of a notification, which carries none.
NoId == 0

\* An identifier no request of the front end carries.
UnmatchedId == MaxFrames + 1

----------------------------------------------------------------------------
\* The editor line of test_shortcuts.py: Delete, Undo (Ctrl+Z) and Redo
\* (Ctrl+Shift+Z) on the first line of the fixture's file.  The editor
\* widget is not among the sources; the undo stack is the one the test
\* exercises: commands that record what was removed and where.

\* 'Line1', the first line of the fixture (test_shortcuts.py:42).
EdLine == <<"L", "i", "n", "e", "1">>

RemoveAt(s, i) == SubSeq(s, 1, i - 1) \o SubSeq(s, i + 1, Len(s))

InsertAt(s, i, c) == SubSeq(s, 1, i - 1) \o <<c>> \o SubSeq(s, i, Len(s))

EdInit ==
    /\ edText = EdLine
    /\ edUndo = <<>>
    /\ edRedo = <<>>
    /\ edVersions = <<EdLine>>

----------------------------------------------------------------------------
\* Signals and handlers

SignalNames == {"SIGINT", "SIGTERM", "SIGBREAK", "SIGHUP"}

\* The signals SignalManager intercepts on this platform (main.py:74-80).
Monitored(win) == IF win THEN {"SIGINT", "SIGTERM", "SIGBREAK"}
                         ELSE {"SIGINT", "SIGTERM"}

\* signal.SIGBREAK exists only on Windows, signal.SIGHUP only elsewhere.
Exists(win, s) == CASE s = "SIGBREAK" -> win
                    [] s = "SIGHUP" -> ~win
                    [] OTHER -> TRUE

\* What signal.getsignal can return in a fresh interpreter: the default or
\* an inherited "ignore"; for SIGINT Python installs default_int_handler.
\* SIGHUP stands for the signals the SignalManager does not touch.
StartupHandlers(win, s) ==
    IF ~Exists(win, s) THEN {"absent"}
    ELSE IF s = "SIGINT" THEN {"default_int_handler", "SIG_IGN"}
    ELSE IF s = "SIGHUP" THEN {"SIG_DFL"}
    ELSE {"SIG_DFL", "SIG_IGN"}

\* The positions inside the try block of main.py:105-107.
TryPcs == {"L106", "listen", "listen_fwd", "listen_srv", "listen_srv_fwd",
           "listen_ret"}

\* The positions inside a client.listen() call.
ListenPcs == {"listen", "listen_fwd", "listen_srv", "listen_srv_fwd",
              "listen_ret"}

\* A try block that spans the whole driver.
Caught_Anywhere(e, at) == e = "TerminateSignal"

\* except TerminateSignal (main.py:108): the one exception the driver
\* catches, and only around the relay loop.
Caught(e, at) == e = "TerminateSignal" /\ at \in TryPcs

\* The try block inside the loop: a caught TerminateSignal resumes the relay.
Raise_Resume(e) ==
    IF Caught(e, pc)
    THEN /\ pc' = "L106"
         /\ UNCHANGED <<exitStatus, exc>>
    ELSE /\ pc' = "exited"
         /\ exitStatus' = "uncaught"
         /\ exc' = e

\* An exception e raised at the current position: caught by main.py:108-109
\* (pass, then line 110), or it propagates out of the script and the
\* interpreter exits with a traceback.
Raise(e) ==
    IF Caught(e, pc)
    THEN /\ pc' = "L110"
         /\ UNCHANGED <<exitStatus, exc>>
    ELSE /\ pc' = "exited"
         /\ exitStatus' = "uncaught"
         /\ exc' = e

\* SignalManager.exit_gracefully (main.py:82-85): a log line, then raise.
exit_gracefully == Raise("TerminateSignal")

\* The process is ended by the operating system.
Killed ==
    /\ pc' = "exited"
    /\ exitStatus' = "killed"
    /\ UNCHANGED exc

\* The interpreter runs the handler installed for s in the main flow.
RunHandler(s) ==
    CASE handler[s] = "exit_gracefully" -> exit_gracefully
      [] handler[s] = "default_int_handler" -> Raise("KeyboardInterrupt")
      [] handler[s] = "SIG_DFL" -> Killed
      [] OTHER -> UNCHANGED <<pc, exitStatus, exc>>

\* The part of the driver a position belongs to.
Phase(at) ==
    CASE at \in {"L95", "L74", "L75", "L76", "L77", "L78", "L79", "L80"} -> "install"
      [] at \in {"L97", "L104", "start"} -> "starting"
      [] at = "L106" -> "loop"
      [] at \in ListenPcs -> "listen"
      [] at = "L110" -> "except"
      [] at = "stop" -> "stop"
      [] at \in {"L88", "L89", "L90", "L91"} -> "restore"
      [] OTHER -> "exit"

Logged(ev) == \E i \in DOMAIN log : log[i] = ev

Count(ev) == Cardinality({i \in DOMAIN log : log[i] = ev})

Pos(ev) == CHOOSE i \in DOMAIN log : log[i] = ev

Before(a, b) == Logged(a) /\ Logged(b) /\ Pos(a) < Pos(b)

----------------------------------------------------------------------------
Init ==
    /\ pc = "L95"
    /\ WINDOWS \in BOOLEAN
    /\ external \in BOOLEAN
    /\ handler \in [SignalNames -> {"absent", "SIG_DFL", "SIG_IGN",
                                    "default_int_handler"}]
    /\ \A s \in SignalNames : handler[s] \in StartupHandlers(WINDOWS, s)
    /\ original = [s \in {"SIGINT", "SIGTERM", "SIGBREAK"} |-> "unset"]
    /\ exitStatus = "none"
    /\ exc = "none"
    /\ log = <<>>
    /\ sigLog = <<>>
    /\ child = "none"
    /\ connected = FALSE
    /\ feAlive = TRUE
    /\ feSent = 0
    /\ feQueue = <<>>
    /\ held = <<>>
    /\ toServer = <<>>
    /\ disconnectSeen = FALSE
    /\ srvSent = <<>>
    /\ srvRead = 0
    /\ heldSrv = <<>>
    /\ toFrontEnd = <<>>
    /\ pending = {}
    /\ startup = handler
    /\ EdInit

----------------------------------------------------------------------------
\* The environment

\* A handler that starts the teardown itself before raising.
Deliver_HandlerTearsDown ==
    /\ pc # "exited"
    /\ Len(sigLog) < MaxSignals
    /\ \E s \in Monitored(WINDOWS) :
          /\ sigLog' = Append(sigLog, [sig |-> s, at |-> Phase(pc),
                                    ran |-> handler[s]])
          /\ log' = IF handler[s] = "exit_gracefully" /\ ~Logged("stop")
                    THEN Append(log, "stop")
                    ELSE log
          /\ RunHandler(s)
    /\ UNCHANGED <<WINDOWS, external, otherVars, handler, original, clientVars>>

\* A monitored signal arrives while the process is alive.
Deliver ==
    /\ pc # "exited"
    /\ Len(sigLog) < MaxSignals
    /\ \E s \in Monitored(WINDOWS) :
          /\ sigLog' = Append(sigLog, [sig |-> s, at |-> Phase(pc),
                                    ran |-> handler[s]])
          /\ RunHandler(s)
    /\ UNCHANGED <<WINDOWS, external, otherVars, handler, original, log, clientVars>>

\* The front end sends its next frame.
FrontEndSend ==
    /\ pc # "exited"
    /\ connected
    /\ feAlive
    /\ feSent < MaxFrames
    /\ feSent' = feSent + 1
    /\ feQueue' = Append(feQueue, feSent + 1)
    /\ UNCHANGED <<pc, WINDOWS, external, otherVars, handler, original, exitStatus, exc,
                   log, sigLog, child, connected, feAlive, held, toServer,
                   disconnectSeen, srvVars>>

\* The front end closes its connection normally.
FrontEndClose ==
    /\ pc # "exited"
    /\ connected
    /\ feAlive
    /\ feAlive' = FALSE
    /\ UNCHANGED <<pc, WINDOWS, external, otherVars, handler, original, exitStatus, exc,
                   log, sigLog, child, connected, feSent, feQueue, held,
                   toServer, disconnectSeen, srvVars>>

\* The requests the server has answered so far.
Replies == SelectSeq(srvSent, LAMBDA x : x \in 1..MaxFrames)

\* The envelopes the server emitted on its own.
Unsolicited == SelectSeq(srvSent, LAMBDA x : x \notin 1..MaxFrames)

\* The server answers the oldest request it has received and not answered,
\* with the request's identifier.
ServerReply ==
    /\ pc # "exited"
    /\ connected
    /\ Len(Replies) < Len(toServer)
    /\ srvSent' = Append(srvSent, toServer[Len(Replies) + 1])
    /\ UNCHANGED <<pc, WINDOWS, external, otherVars, handler, original,
                   exitStatus, exc, log, sigLog, child, connected, feAlive,
                   feSent, feQueue, held, toServer, disconnectSeen, srvRead,
                   heldSrv, toFrontEnd, pending>>

\* The server emits a notification (no identifier) or a response whose
\* identifier no request carries.
ServerUnsolicited ==
    /\ pc # "exited"
    /\ connected
    /\ Len(Unsolicited) < MaxUnsolicited
    /\ \E e \in {NoId, UnmatchedId} : srvSent' = Append(srvSent, e)
    /\ UNCHANGED <<pc, WINDOWS, external, otherVars, handler, original,
                   exitStatus, exc, log, sigLog, child, connected, feAlive,
                   feSent, feQueue, held, toServer, disconnectSeen, srvRead,
                   heldSrv, toFrontEnd, pending>>

----------------------------------------------------------------------------
\* SignalManager.__init__ (main.py:73-80), entered from main.py:95-96

L95_Process ==
    /\ pc = "L95"
    /\ pc' = "L74"
    /\ UNCHANGED <<WINDOWS, external, otherVars, handler, original, exitStatus, exc, log,
                   sigLog, clientVars>>

SaveOriginal(s, next) ==
    /\ original' = [original EXCEPT ![s] = handler[s]]
    /\ pc' = next
    /\ UNCHANGED <<WINDOWS, external, otherVars, handler, exitStatus, exc, log, sigLog,
                   clientVars>>

Install(s, h, next) ==
    /\ handler' = [handler EXCEPT ![s] = h]
    /\ pc' = next
    /\ UNCHANGED <<WINDOWS, external, otherVars, original, exitStatus, exc, log, sigLog,
                   clientVars>>

L74_SaveSigint == pc = "L74" /\ SaveOriginal("SIGINT", "L75")

L75_SaveSigterm == pc = "L75" /\ SaveOriginal("SIGTERM", "L76")

L76_InstallSigint == pc = "L76" /\ Install("SIGINT", "exit_gracefully", "L77")

\* Line 77 installing the handler for SIGINT a second time.
L77_InstallSigint_Again == pc = "L77" /\ Install("SIGINT", "exit_gracefully", "L78")

L77_InstallSigterm == pc = "L77" /\ Install("SIGTERM", "exit_gracefully", "L78")

\* Lines 79-80 without the test of line 78.
L78_Always ==
    /\ pc = "L78"
    /\ pc' = "L79"
    /\ UNCHANGED <<WINDOWS, external, otherVars, handler, original, exitStatus,
                   exc, log, sigLog, clientVars>>

L78_IfWindows ==
    /\ pc = "L78"
    /\ pc' = IF WINDOWS THEN "L79" ELSE "L97"
    /\ UNCHANGED <<WINDOWS, external, otherVars, handler, original, exitStatus, exc, log,
                   sigLog, clientVars>>

L79_SaveSigbreak == pc = "L79" /\ SaveOriginal("SIGBREAK", "L80")

L80_InstallSigbreak == pc = "L80" /\ Install("SIGBREAK", "exit_gracefully", "L97")

----------------------------------------------------------------------------
\* client = LanguageServerClient(...); client.start()  (main.py:97-104)

L97_Construct ==
    /\ pc = "L97"
    /\ pc' = "L104"
    /\ UNCHANGED <<WINDOWS, external, otherVars, handler, original, exitStatus, exc, log,
                   sigLog, clientVars>>

L104_StartCall ==
    /\ pc = "L104"
    /\ pc' = "start"
    /\ log' = Append(log, "start")
    /\ UNCHANGED <<WINDOWS, external, otherVars, handler, original, exitStatus, exc,
                   sigLog, clientVars>>

\* What client.start() can end with (specification, sections 4.3, 4.6, 7).
ClientStartOutcomes ==
    IF external THEN {"ok", "ServerUnreachable"}
                ELSE {"ok", "SpawnError", "ServerUnreachable"}

\* The owned child after client.start() ended with r.
ClientChildAfterStart(r) ==
    IF external \/ r = "SpawnError" THEN "none" ELSE "running"

\* A driver that swallows the failure of client.start() and goes on.
L104_StartReturn_Swallowed ==
    /\ pc = "start"
    /\ \E r \in ClientStartOutcomes :
          /\ child' = ClientChildAfterStart(r)
          /\ pc' = "L106"
          /\ connected' = (r = "ok")
          /\ log' = Append(log, IF r = "ok" THEN "start_ret" ELSE "start_fail")
          /\ UNCHANGED <<exitStatus, exc>>
    /\ UNCHANGED <<WINDOWS, external, otherVars, handler, original, sigLog, feAlive,
                   feSent, feQueue, held, toServer, disconnectSeen, srvVars>>

\* client.start() returns to line 105, or its error propagates from line 104,
\* which is outside the try block.
L104_StartReturn ==
    /\ pc = "start"
    /\ \E r \in ClientStartOutcomes :
          /\ child' = ClientChildAfterStart(r)
          /\ IF r = "ok"
             THEN /\ pc' = "L106"
                  /\ connected' = TRUE
                  /\ log' = Append(log, "start_ret")
                  /\ UNCHANGED <<exitStatus, exc>>
             ELSE /\ Raise(r)
                  /\ connected' = FALSE
                  /\ log' = Append(log, "start_fail")
    /\ UNCHANGED <<WINDOWS, external, otherVars, handler, original, sigLog, feAlive,
                   feSent, feQueue, held, toServer, disconnectSeen, srvVars>>

----------------------------------------------------------------------------
\* while True: client.listen()  (main.py:106-107)

L107_ListenCall ==
    /\ pc = "L106"
    /\ pc' = "listen"
    /\ log' = IF Logged("listen") THEN log ELSE Append(log, "listen")
    /\ UNCHANGED <<WINDOWS, external, otherVars, handler, original, exitStatus, exc,
                   sigLog, clientVars>>

\* One router iteration polls the front end (specification, section 4.4,
\* step 1): a frame is read, or nothing arrived, or the peer is gone.
ClientPoll ==
    /\ pc = "listen"
    /\ IF feQueue # <<>>
       THEN /\ held' = <<Head(feQueue)>>
            /\ feQueue' = Tail(feQueue)
            /\ pc' = "listen_fwd"
            /\ UNCHANGED disconnectSeen
       ELSE /\ pc' = "listen_srv"
            /\ disconnectSeen' = (disconnectSeen \/ ~feAlive)
            /\ UNCHANGED <<held, feQueue>>
    /\ UNCHANGED <<WINDOWS, external, otherVars, handler, original, exitStatus, exc, log,
                   sigLog, child, connected, feAlive, feSent, toServer, srvVars>>

\* The frame read is recorded in the Pending Request Table and forwarded
\* verbatim (section 4.4, step 2).  Every front-end frame is a request.
ClientForward ==
    /\ pc = "listen_fwd"
    /\ toServer' = Append(toServer, held[1])
    /\ pending' = pending \cup {held[1]}
    /\ held' = <<>>
    /\ pc' = "listen_srv"
    /\ UNCHANGED <<WINDOWS, external, otherVars, handler, original, exitStatus,
                   exc, log, sigLog, child, connected, feAlive, feSent, feQueue,
                   disconnectSeen, srvSent, srvRead, heldSrv, toFrontEnd>>

\* The same iteration polls the server endpoint (section 4.4, step 1).
ClientPollServer ==
    /\ pc = "listen_srv"
    /\ IF srvRead < Len(srvSent)
       THEN /\ heldSrv' = <<srvSent[srvRead + 1]>>
            /\ srvRead' = srvRead + 1
            /\ pc' = "listen_srv_fwd"
       ELSE /\ pc' = "listen_ret"
            /\ UNCHANGED <<heldSrv, srvRead>>
    /\ UNCHANGED <<WINDOWS, external, otherVars, handler, original, exitStatus,
                   exc, log, sigLog, child, connected, feAlive, feSent, feQueue,
                   held, toServer, disconnectSeen, srvSent, toFrontEnd, pending>>

\* The table after an envelope with identifier id came from the server
\* (section 4.4, step 3): a matching entry is removed; a notification and
\* an unmatched identifier leave the table as it is.
PendingAfterServer(id) ==
    IF id # NoId /\ id \in pending THEN pending \ {id} ELSE pending

\* The router drops what it cannot match instead of relaying it.
ClientForwardServer_DropUnmatched ==
    /\ pc = "listen_srv_fwd"
    /\ toFrontEnd' = IF heldSrv[1] = NoId \/ heldSrv[1] \in pending
                     THEN Append(toFrontEnd, heldSrv[1])
                     ELSE toFrontEnd
    /\ pending' = PendingAfterServer(heldSrv[1])
    /\ heldSrv' = <<>>
    /\ pc' = "listen_ret"
    /\ UNCHANGED <<WINDOWS, external, otherVars, handler, original, exitStatus,
                   exc, log, sigLog, child, connected, feAlive, feSent, feQueue,
                   held, toServer, disconnectSeen, srvSent, srvRead>>

\* The server envelope read is forwarded to the front end whatever its
\* identifier (section 4.4, step 3).
ClientForwardServer ==
    /\ pc = "listen_srv_fwd"
    /\ toFrontEnd' = Append(toFrontEnd, heldSrv[1])
    /\ pending' = PendingAfterServer(heldSrv[1])
    /\ heldSrv' = <<>>
    /\ pc' = "listen_ret"
    /\ UNCHANGED <<WINDOWS, external, otherVars, handler, original, exitStatus,
                   exc, log, sigLog, child, connected, feAlive, feSent, feQueue,
                   held, toServer, disconnectSeen, srvSent, srvRead>>

\* The fatal errors a listen() call can raise (section 7).
ListenErrors == {"MalformedFrame", "TransportError"}

\* client.listen() raises: line 108 catches TerminateSignal only.
L107_ListenRaises ==
    /\ pc = "listen"
    /\ \E e \in ListenErrors : Raise(e)
    /\ UNCHANGED <<WINDOWS, external, otherVars, handler, original, log, sigLog,
                   clientVars>>

\* client.listen() returns; its result is not looked at and the loop
\* condition is True, so line 107 runs again.
L107_ListenReturn ==
    /\ pc = "listen_ret"
    /\ pc' = "L106"
    /\ UNCHANGED <<WINDOWS, external, otherVars, handler, original, exitStatus, exc, log,
                   sigLog, clientVars>>

----------------------------------------------------------------------------
\* client.stop()  (main.py:110)

L110_StopCall ==
    /\ pc = "L110"
    /\ pc' = "stop"
    /\ log' = Append(log, "stop")
    /\ UNCHANGED <<WINDOWS, external, otherVars, handler, original, exitStatus, exc,
                   sigLog, clientVars>>

\* client.stop() asks the owned child to terminate and reaps it
\* (specification, sections 4.3 and 4.6); an external server is left alone.
ClientChildAfterStop == IF child = "running" THEN "terminated" ELSE child

\* Lines 111 and 112 swapped: process.terminate() right after client.stop().
L110_StopReturn_ThenTerminate ==
    /\ pc = "stop"
    /\ pc' = "L112"
    /\ log' = Append(log, "stop_ret")
    /\ child' = ClientChildAfterStop
    /\ connected' = FALSE
    /\ held' = <<>>
    /\ heldSrv' = <<>>
    /\ pending' = {}
    /\ UNCHANGED <<WINDOWS, external, otherVars, handler, original, exitStatus, exc,
                   sigLog, feAlive, feSent, feQueue, toServer, disconnectSeen,
                   srvSent, srvRead, toFrontEnd>>

\* client.stop() returns: the router is drained, the endpoints are closed
\* (section 4.6, draining) and the child is gone.  Line 111 is next.
L110_StopReturn ==
    /\ pc = "stop"
    /\ pc' = "L88"
    /\ log' = Append(log, "stop_ret")
    /\ child' = ClientChildAfterStop
    /\ connected' = FALSE
    /\ held' = <<>>
    /\ heldSrv' = <<>>
    /\ pending' = {}
    /\ UNCHANGED <<WINDOWS, external, otherVars, handler, original, exitStatus, exc,
                   sigLog, feAlive, feSent, feQueue, toServer, disconnectSeen,
                   srvSent, srvRead, toFrontEnd>>

----------------------------------------------------------------------------
\* sig_manager.restore()  (main.py:111, 87-91)

L88_RestoreSigint ==
    /\ pc = "L88"
    /\ handler' = [handler EXCEPT !["SIGINT"] = original["SIGINT"]]
    /\ pc' = "L89"
    /\ log' = Append(log, "restore")
    /\ UNCHANGED <<WINDOWS, external, otherVars, original, exitStatus, exc, sigLog,
                   clientVars>>

\* Line 89 restoring SIGTERM with the handler saved for SIGINT.
L89_RestoreSigterm_FromSigint ==
    pc = "L89" /\ Install("SIGTERM", original["SIGINT"], "L90")

L89_RestoreSigterm == pc = "L89" /\ Install("SIGTERM", original["SIGTERM"], "L90")

L90_IfWindows ==
    /\ pc = "L90"
    /\ pc' = IF WINDOWS THEN "L91" ELSE "L112"
    /\ log' = IF WINDOWS THEN log ELSE Append(log, "restore_ret")
    /\ UNCHANGED <<WINDOWS, external, otherVars, handler, original, exitStatus, exc,
                   sigLog, clientVars>>

L91_RestoreSigbreak ==
    /\ pc = "L91"
    /\ handler' = [handler EXCEPT !["SIGBREAK"] = original["SIGBREAK"]]
    /\ pc' = "L112"
    /\ log' = Append(log, "restore_ret")
    /\ UNCHANGED <<WINDOWS, external, otherVars, original, exitStatus, exc, sigLog,
                   clientVars>>

----------------------------------------------------------------------------
\* process.terminate(); process.wait()  (main.py:112-113)
\* process is psutil.Process() of line 95: no pid is given, so it is the
\* bridge's own process.

\* psutil's terminate(): on Windows TerminateProcess, which no handler can
\* intercept; elsewhere SIGTERM sent to the own pid, which the interpreter
\* handles as any other SIGTERM before line 113.
L112_Terminate ==
    /\ pc = "L112"
    /\ log' = Append(log, "terminate")
    /\ IF WINDOWS
       THEN Killed
       ELSE IF handler["SIGTERM"] = "SIG_IGN"
            THEN pc' = "L113" /\ UNCHANGED <<exitStatus, exc>>
            ELSE RunHandler("SIGTERM")
    /\ UNCHANGED <<WINDOWS, external, otherVars, handler, original, sigLog, clientVars>>

\* psutil's wait() on the own pid polls until that pid is gone: it does not
\* return while the process lives.  Only a signal ends it.
L113_Wait ==
    /\ pc = "L113"
    /\ pc' = "waiting"
    /\ log' = Append(log, "wait")
    /\ UNCHANGED <<WINDOWS, external, otherVars, handler, original, exitStatus, exc,
                   sigLog, clientVars>>

----------------------------------------------------------------------------
Next ==
    \/ Deliver
    \/ FrontEndSend
    \/ FrontEndClose
    \/ L95_Process
    \/ L74_SaveSigint
    \/ L75_SaveSigterm
    \/ L76_InstallSigint
    \/ L77_InstallSigterm
    \/ L78_IfWindows
    \/ L79_SaveSigbreak
    \/ L80_InstallSigbreak
    \/ L97_Construct
    \/ L104_StartCall
    \/ L104_StartReturn
    \/ L107_ListenCall
    \/ ClientPoll
    \/ ClientForward
    \/ ClientPollServer
    \/ L107_ListenRaises
    \/ L107_ListenReturn
    \/ L110_StopCall
    \/ L110_StopReturn
    \/ L88_RestoreSigint
    \/ L89_RestoreSigterm
    \/ L90_IfWindows
    \/ L91_RestoreSigbreak
    \/ L112_Terminate
    \/ L113_Wait

\* The driver on every platform and with every startup signal table, the
\* server staying silent.
Spec == Init /\ [][Next]_vars

\* The relay with traffic in both directions, on one platform: not Windows,
\* an owned server, SIGINT as a fresh interpreter has it.
RelayInit ==
    /\ Init
    /\ ~WINDOWS
    /\ ~external
    /\ handler["SIGINT"] = "default_int_handler"

\* Every step of the driver off Windows (lines 79, 80 and 91 never run
\* there), and the server's traffic.
RelayNext ==
    \/ Deliver
    \/ FrontEndSend
    \/ FrontEndClose
    \/ ServerReply
    \/ ServerUnsolicited
    \/ L95_Process
    \/ L74_SaveSigint
    \/ L75_SaveSigterm
    \/ L76_InstallSigint
    \/ L77_InstallSigterm
    \/ L78_IfWindows
    \/ L97_Construct
    \/ L104_StartCall
    \/ L104_StartReturn
    \/ L107_ListenCall
    \/ ClientPoll
    \/ ClientForward
    \/ ClientPollServer
    \/ ClientForwardServer
    \/ L107_ListenRaises
    \/ L107_ListenReturn
    \/ L110_StopCall
    \/ L110_StopReturn
    \/ L88_RestoreSigint
    \/ L89_RestoreSigterm
    \/ L90_IfWindows
    \/ L112_Terminate
    \/ L113_Wait

RelaySpec == RelayInit /\ [][RelayNext]_vars

----------------------------------------------------------------------------
\* The editor (test_shortcuts.py:94-121)

\* Everything that is not the editor's.
bridgeVars == <<pc, WINDOWS, external, startup, handler, original, exitStatus,
                exc, log, sigLog, clientVars>>

\* Delete: the character under the cursor, at any column i, is removed; the
\* command is pushed on the undo stack and the redo stack is emptied.
EdDelete ==
    /\ \E i \in 1..Len(edText) :
          /\ edText' = RemoveAt(edText, i)
          /\ edUndo' = <<[pos |-> i, ch |-> edText[i]]>> \o edUndo
          /\ edVersions' = Append(SubSeq(edVersions, 1, Len(edUndo) + 1),
                                  RemoveAt(edText, i))
    /\ edRedo' = <<>>
    /\ UNCHANGED bridgeVars

\* An Undo that puts the character back one column too far to the right.
EdUndoKey_OffByOne ==
    /\ edUndo # <<>>
    /\ edText' = IF Head(edUndo).pos <= Len(edText)
                 THEN InsertAt(edText, Head(edUndo).pos + 1, Head(edUndo).ch)
                 ELSE InsertAt(edText, Head(edUndo).pos, Head(edUndo).ch)
    /\ edRedo' = <<Head(edUndo)>> \o edRedo
    /\ edUndo' = Tail(edUndo)
    /\ UNCHANGED <<edVersions, bridgeVars>>

\* Ctrl+Z: the latest command is reverted, the removed character is put
\* back where it was, and the command moves to the redo stack.
EdUndoKey ==
    /\ edUndo # <<>>
    /\ edText' = InsertAt(edText, Head(edUndo).pos, Head(edUndo).ch)
    /\ edRedo' = <<Head(edUndo)>> \o edRedo
    /\ edUndo' = Tail(edUndo)
    /\ UNCHANGED <<edVersions, bridgeVars>>

\* Ctrl+Shift+Z: the command undone last is applied again.
EdRedoKey ==
    /\ edRedo # <<>>
    /\ edText' = RemoveAt(edText, Head(edRedo).pos)
    /\ edUndo' = <<Head(edRedo)>> \o edUndo
    /\ edRedo' = Tail(edRedo)
    /\ UNCHANGED <<edVersions, bridgeVars>>

\* The editor alone, the bridge not started.
EditorInit ==
    /\ Init
    /\ ~WINDOWS
    /\ ~external
    /\ handler["SIGINT"] = "default_int_handler"
    /\ handler["SIGTERM"] = "SIG_DFL"

EditorNext ==
    \/ EdDelete
    \/ EdUndoKey
    \/ EdRedoKey

EditorSpec == EditorInit /\ [][EditorNext]_vars

----------------------------------------------------------------------------
\* Vocabulary of the claims

\* The first signal delivered found the relay loop running and was turned
\* into TerminateSignal by exit_gracefully.
SignalledWhileRunning ==
    /\ Len(sigLog) >= 1
    /\ sigLog[1].at \in {"loop", "listen"}
    /\ sigLog[1].ran = "exit_gracefully"

\* The handlers of all monitored signals are the SignalManager's.
HandlersInstalled ==
    \A s \in Monitored(WINDOWS) : handler[s] = "exit_gracefully"

\* The place of a teardown call in the order stop, restore, terminate, wait.
Rank(ev) ==
    CASE ev = "stop" -> 1
      [] ev = "stop_ret" -> 2
      [] ev = "restore" -> 3
      [] ev = "restore_ret" -> 4
      [] ev = "terminate" -> 5
      [] ev = "wait" -> 6
      [] OTHER -> 0

----------------------------------------------------------------------------
\* C1: whenever the relay loop ends while the bridge is running, by a signal
\* or by an error raised in client.listen(), client.stop() is executed before
\* the process exits, so an owned child is not left running.  (Runs with at
\* most one signal: what a second signal does is C2's matter.)
C1_LoopEndReachesStop ==
    (pc = "exited" /\ Logged("start_ret") /\ Len(sigLog) <= 1)
        => (Logged("stop_ret") /\ child # "running")

\* C2: after a first monitored signal caught in the running state, a second
\* monitored signal delivered while client.stop() is executing changes
\* nothing: stop, restore and terminate still execute, each once, and wait
\* too unless terminate itself ended the process.
C2_SecondSignalNoEffect ==
    (/\ pc = "exited"
     /\ SignalledWhileRunning
     /\ Len(sigLog) >= 2
     /\ sigLog[2].at = "stop")
        => /\ Count("stop") = 1
           /\ Logged("stop_ret")
           /\ Count("restore") = 1
           /\ Count("terminate") = 1
           /\ (exitStatus # "killed" => Count("wait") = 1)

C4_RestoreExactlyOnce ==
    (pc = "exited" /\ Logged("start") /\ ~Logged("start_fail"))
        => (Count("restore") = 1 /\ Before("stop_ret", "restore"))

\* C5: a shutdown triggered by one monitored signal in the running state,
\* whose teardown ran to its end, exits with status 0: not killed by a
\* signal, not through an uncaught exception.
C5_CleanShutdownExitsZero ==
    (/\ pc = "exited"
     /\ SignalledWhileRunning
     /\ Logged("terminate"))
        => exitStatus = "exit0"

\* C6: once a monitored signal was delivered in the running state, the
\* bridge ends in the stopped state: a process that has exited has completed
\* client.stop() and restored the original handlers.
C6_SignalEndsStopped ==
    (pc = "exited" /\ SignalledWhileRunning)
        => /\ Logged("stop_ret")
           /\ Logged("restore_ret")
           /\ \A s \in Monitored(WINDOWS) : handler[s] = original[s]

\* C7: once a client.listen() call has reported the peer's disconnect
\* without raising, the main loop leaves the running state: listen() is not
\* called again.
C7_DisconnectLeavesLoop == ~(disconnectSeen /\ pc = "listen")

\* C8: a signal never cuts a relay iteration short: when teardown starts, no
\* frame has been read and not forwarded.
C8_ListenRunsToCompletion == pc = "L110" => held = <<>>

----------------------------------------------------------------------------
\* The lifecycle state a position belongs to: starting 0, running 1,
\* draining 2, stopped 3 (specification, section 4.6).
LifeRank(at) ==
    CASE Phase(at) \in {"install", "starting"} -> 0
      [] at \in TryPcs -> 1
      [] Phase(at) \in {"except", "stop"} -> 2
      [] OTHER -> 3

----------------------------------------------------------------------------
\* C18: the signal handler performs no teardown: a step that delivers a
\* signal makes no call, changes no handler and nothing of the client, and
\* every teardown call (stop, restore, terminate, wait) is made by the main
\* flow from a position after the relay loop.
C18_HandlerDoesNoTeardown ==
    [][/\ (sigLog' # sigLog)
            => UNCHANGED <<log, handler, original, clientVars>>
       /\ (log' # log /\ Rank(log'[Len(log')]) > 0)
            => LifeRank(pc) >= 2]_vars

\* C18 witness: exit_gracefully has run and ended the loop, and no teardown
\* call has been made yet.
C18_Witness ==
    /\ pc = "L110"
    /\ \E i \in DOMAIN sigLog : sigLog[i].ran = "exit_gracefully"
    /\ ~Logged("stop")

----------------------------------------------------------------------------
\* The relay's traffic

\* The envelopes the bridge has decoded from the front end, in order.
DecodedFE == [i \in 1..(feSent - Len(feQueue)) |-> i]

\* The envelopes the bridge has decoded from the server, in order.
DecodedSrv == SubSeq(srvSent, 1, srvRead)

\* How many envelopes with identifier k reached the front end.
Responses(k) == Cardinality({i \in DOMAIN toFrontEnd : toFrontEnd[i] = k})

\* C13: outside a relay iteration, what was delivered to the server is
\* exactly what was decoded from the front end, in that order, and what was
\* delivered to the front end is exactly what was decoded from the server:
\* nothing dropped, duplicated or reordered.
C13_PerDirectionOrder ==
    pc \notin ListenPcs
        => (toServer = DecodedFE /\ toFrontEnd = DecodedSrv)

C16_MalformedFrameDrains ==
    (pc = "exited" /\ exc = "MalformedFrame")
        => (exitStatus # "uncaught" /\ Logged("stop_ret"))

----------------------------------------------------------------------------
====
